---- MODULE Spec2Model ----
(***************************************************************************)
(* Model of logsim/parser_handler.py: the ParserErrorHandler that turns an *)
(* error code (and, for a positional error, the offending Symbol) into a   *)
(* LineTerminalOutput or FileTerminalOutput appended to error_output_list. *)
(*                                                                         *)
(* A Python str is modelled as a sequence of pieces.  A piece is a         *)
(* non-empty literal fragment; the newline is the piece "\n" and a space   *)
(* of the caret string is the piece " ".  Concatenation of strs is \o, the *)
(* empty str is << >>, and a str is truthy iff it has at least one piece.  *)
(***************************************************************************)
EXTENDS Integers, Sequences, FiniteSets, TLC

VARIABLES
    name_table,         \* names: the name strings held by Names, 0-based id i at [i + 1]
    error_code_count,   \* names.error_code_count: the registry's allocation cursor
    file_lines,         \* scanner.file_lines: the cached source lines, 0-based line l at [l + 1]
    codes,              \* the error codes held as attributes (self.X, devices.X, network.X, monitors.X)
    error_output_list,  \* self.error_output_list
    other_error_output_list,  \* error_output_list of the handler of a second parse session
    last                \* the most recent call on the handler: its arguments, locals and outcome

vars == <<name_table, error_code_count, file_lines, codes, error_output_list,
          other_error_output_list, last>>

---------------------------------------------------------------------------
(* Bounds of the model *)

\* ids 0 .. MaxPre - 1 were allocated from the registry before any collaborator
MaxPre == 1
\* columns of a symbol range over 0 .. MaxCol
MaxCol == 2
\* a session holds at most MaxList diagnostics
MaxList == 3
\* requests of other modules take at most MaxOther codes from the registry in all
MaxOther == 3

---------------------------------------------------------------------------
(* Python values *)

NL == "\n"
QUOTE == "\""
SPACE == " "

\* str.__bool__: a str is truthy iff it is not empty
StrTruthy(s) == Len(s) > 0

\* The value of Symbol.id: None, an int (a name index) or a str (a number's text)
NoneId == [t |-> "None", n |-> 0, s |-> << >>]
IntId(i) == [t |-> "int", n |-> i, s |-> << >>]
StrId(text) == [t |-> "str", n |-> 0, s |-> text]

\* Truthiness of symbol.id as tested by "if symbol.id:"
IdTruthy(id) ==
    CASE id.t = "None" -> FALSE
      [] id.t = "int" -> id.n # 0
      [] id.t = "str" -> StrTruthy(id.s)

Digit(d) == <<"0", "1", "2", "3", "4", "5", "6", "7", "8", "9">>[d + 1]

\* The decimal text of a non-negative int, as an f-string renders it
RECURSIVE Dec(_)
Dec(n) == IF n < 10 THEN <<Digit(n)>> ELSE Dec(n \div 10) \o <<Digit(n % 10)>>

\* " " * n
RECURSIVE Spaces(_)
Spaces(n) == IF n <= 0 THEN << >> ELSE <<SPACE>> \o Spaces(n - 1)

\* str.split("\n"): the lines of a text
RECURSIVE SplitLines(_)
SplitLines(s) ==
    IF \A i \in 1..Len(s) : s[i] # NL
    THEN <<s>>
    ELSE LET k == CHOOSE i \in 1..Len(s) : s[i] = NL /\ \A j \in 1..(i - 1) : s[j] # NL
         IN <<SubSeq(s, 1, k - 1)>> \o SplitLines(SubSeq(s, k + 1, Len(s)))

---------------------------------------------------------------------------
(* Collaborators: the symbol types of Scanner, the registry of Names *)

KEYWORD == "KEYWORD"
NAME == "NAME"
NUMBER == "NUMBER"
COMMA == "COMMA"
SEMICOLON == "SEMICOLON"
COLON == "COLON"
FULL_STOP == "FULL_STOP"
ARROW == "ARROW"
OPEN_CURLY_BRACKET == "OPEN_CURLY_BRACKET"
CLOSE_CURLY_BRACKET == "CLOSE_CURLY_BRACKET"
EOF == "EOF"
\* a classification outside the set handle_error recognizes
UNRECOGNIZED == "UNRECOGNIZED"

ValueTypes == {KEYWORD, NAME, NUMBER}
PunctuationTypes == {COMMA, SEMICOLON, COLON, FULL_STOP, ARROW,
                     OPEN_CURLY_BRACKET, CLOSE_CURLY_BRACKET}
RecognizedTypes == ValueTypes \cup PunctuationTypes \cup {EOF}

\* names.get_name_string(name_id), for an id of the table
get_name_string(name_id) == name_table[name_id + 1]

\* names.unique_error_codes(n) called with the cursor at count: the n fresh codes
unique_error_codes(count, n) == [i \in 1..n |-> count + i - 1]

\* Devices.__init__, Network.__init__ and Monitors.__init__ with the cursor at
\* count: each takes one batch and keeps the codes the handler's catalog uses
DevicesCodes(count) ==
    LET c == unique_error_codes(count, 6) IN [DEVICE_PRESENT |-> c[6]]
NetworkCodes(count) ==
    LET c == unique_error_codes(count, 6)
    IN [INPUT_CONNECTED |-> c[4], PORT_ABSENT |-> c[5], DEVICE_ABSENT |-> c[6]]
MonitorsCodes(count) ==
    LET c == unique_error_codes(count, 3) IN [MONITOR_PRESENT |-> c[3]]

\* Mutant: the second batch starts on the last code of the first
HandlerCodes_overlapping_batches(count) ==
    LET syn == unique_error_codes(count, 17)
        sem == unique_error_codes(count + 16, 4)
    IN [EXPECT_IDENTIFIER |-> syn[1], EXPECT_INPUT_DEVICE |-> syn[2],
        EXPECT_VARIABLE_INPUT_NUMBER |-> syn[3], EXPECT_CLOCK_CYCLE |-> syn[4],
        EXPECT_INITIAL_STATE |-> syn[5], EXPECT_PIN_IN |-> syn[6],
        EXPECT_PIN_OUT |-> syn[7], EXPECT_PIN_IN_OR_OUT |-> syn[8],
        EXPECT_KEYWORD |-> syn[9], EXPECT_OPEN_CURLY_BRACKET |-> syn[10],
        EXPECT_COMMA |-> syn[11], EXPECT_SEMICOLON |-> syn[12],
        EXPECT_COLON |-> syn[13], EXPECT_FULL_STOP_OR_SEMICOLON |-> syn[14],
        EXPECT_FULL_STOP |-> syn[15], EXPECT_ARROW |-> syn[16],
        EXPECT_FULL_STOP_OR_ARROW |-> syn[17],
        MISSING_CLOCK_OR_SWITCH |-> sem[1], DUPLICATE_KEYWORD |-> sem[2],
        WRONG_BLOCK_ORDER |-> sem[3], MONITOR_NOT_DEFINED |-> sem[4]]

\* ParserErrorHandler.__init__ with the cursor at count: a batch of 17 codes for
\* the syntax errors, then a batch of 4 for the semantic errors
HandlerCodes(count) ==
    LET syn == unique_error_codes(count, 17)
        sem == unique_error_codes(count + 17, 4)
    IN [EXPECT_IDENTIFIER |-> syn[1], EXPECT_INPUT_DEVICE |-> syn[2],
        EXPECT_VARIABLE_INPUT_NUMBER |-> syn[3], EXPECT_CLOCK_CYCLE |-> syn[4],
        EXPECT_INITIAL_STATE |-> syn[5], EXPECT_PIN_IN |-> syn[6],
        EXPECT_PIN_OUT |-> syn[7], EXPECT_PIN_IN_OR_OUT |-> syn[8],
        EXPECT_KEYWORD |-> syn[9], EXPECT_OPEN_CURLY_BRACKET |-> syn[10],
        EXPECT_COMMA |-> syn[11], EXPECT_SEMICOLON |-> syn[12],
        EXPECT_COLON |-> syn[13], EXPECT_FULL_STOP_OR_SEMICOLON |-> syn[14],
        EXPECT_FULL_STOP |-> syn[15], EXPECT_ARROW |-> syn[16],
        EXPECT_FULL_STOP_OR_ARROW |-> syn[17],
        MISSING_CLOCK_OR_SWITCH |-> sem[1], DUPLICATE_KEYWORD |-> sem[2],
        WRONG_BLOCK_ORDER |-> sem[3], MONITOR_NOT_DEFINED |-> sem[4]]

SyntaxTags ==
    {"EXPECT_IDENTIFIER", "EXPECT_INPUT_DEVICE", "EXPECT_VARIABLE_INPUT_NUMBER",
     "EXPECT_CLOCK_CYCLE", "EXPECT_INITIAL_STATE", "EXPECT_PIN_IN", "EXPECT_PIN_OUT",
     "EXPECT_PIN_IN_OR_OUT", "EXPECT_KEYWORD", "EXPECT_OPEN_CURLY_BRACKET",
     "EXPECT_COMMA", "EXPECT_SEMICOLON", "EXPECT_COLON",
     "EXPECT_FULL_STOP_OR_SEMICOLON", "EXPECT_FULL_STOP", "EXPECT_ARROW",
     "EXPECT_FULL_STOP_OR_ARROW"}
SemanticTags ==
    {"MISSING_CLOCK_OR_SWITCH", "DUPLICATE_KEYWORD", "WRONG_BLOCK_ORDER",
     "MONITOR_NOT_DEFINED"}
CollaboratorTags ==
    {"PORT_ABSENT", "INPUT_CONNECTED", "DEVICE_ABSENT", "DEVICE_PRESENT",
     "MONITOR_PRESENT"}
DeclaredTags == SyntaxTags \cup SemanticTags \cup CollaboratorTags

\* The identifiers the catalog declares, and every identifier a caller can pass:
\* every code the registry has handed out and the first one it has not
DeclaredCodes == {codes[t] : t \in DeclaredTags}
AllCodes == 0..error_code_count

---------------------------------------------------------------------------
(* The exceptions the handler raises *)

NoException == "none"
InvalidSymbolType == "ValueError: Invalid symbol type"
InvalidErrorCode == "ValueError: Invalid error code"
MissingName == "TypeError: 1 required positional argument: 'name'"
IndexError == "IndexError: list index out of range"

\* The fatal internal faults: InvalidSymbolClassification, UnknownErrorCode,
\* MissingLabelArgument
FatalFaults == {InvalidSymbolType, InvalidErrorCode, MissingName}

Returned(v) == [raised |-> NoException, value |-> v]
Raised(e) == [raised |-> e, value |-> << >>]

---------------------------------------------------------------------------
(* ParserErrorHandler.get_error_message *)

\* The message templates, in the order the elif chain tests their codes;
\* name is the quoted label
Template(tag, name) ==
    CASE tag = "EXPECT_IDENTIFIER" ->
            <<"Found ">> \o name \o <<", expected a non-keyword identifier">>
      [] tag = "EXPECT_INPUT_DEVICE" ->
            <<"Found ">> \o name \o <<", expected 'AND', 'NAND', 'OR', 'NOR', 'XOR' or 'DTYPE'">>
      [] tag = "EXPECT_VARIABLE_INPUT_NUMBER" ->
            <<"Found ">> \o name \o <<", expected integer between 1 and 16">>
      [] tag = "EXPECT_CLOCK_CYCLE" ->
            <<"Found ">> \o name \o <<", expected positive integer with no leading zero">>
      [] tag = "EXPECT_INITIAL_STATE" ->
            <<"Found ">> \o name \o <<", expected 0 or 1">>
      [] tag = "EXPECT_PIN_IN" ->
            <<"Found ">> \o name \o <<", expected 'I1-16', 'DATA', 'CLK', 'SET' or 'CLEAR'">>
      [] tag = "EXPECT_PIN_OUT" ->
            <<"Found ">> \o name \o <<", expected 'Q' or 'QBAR'">>
      [] tag = "EXPECT_PIN_IN_OR_OUT" ->
            <<"Found ">> \o name \o <<", expected 'I1-16', 'DATA', 'CLK', 'SET', 'CLEAR', 'Q' or 'QBAR'">>
      [] tag = "EXPECT_KEYWORD" ->
            <<"Found ">> \o name \o <<", expected a keyword ('DEVICE', 'CLOCK', 'SWITCH', 'MONITOR' or 'CONNECTION')">>
      [] tag = "EXPECT_OPEN_CURLY_BRACKET" ->
            <<"Found ">> \o name \o <<", expected '{'">>
      [] tag = "EXPECT_COMMA" ->
            <<"Found ">> \o name \o <<", expected ','">>
      [] tag = "EXPECT_SEMICOLON" ->
            <<"Found ">> \o name \o <<", expected ';'">>
      [] tag = "EXPECT_COLON" ->
            <<"Found ">> \o name \o <<", expected ':'">>
      [] tag = "EXPECT_FULL_STOP_OR_SEMICOLON" ->
            <<"Found ">> \o name \o <<", expected '.' (if pin has to be defined) or ';' (if pin does not have to be defined)">>
      [] tag = "EXPECT_FULL_STOP" ->
            <<"Found ">> \o name \o <<", expected '.'">>
      [] tag = "EXPECT_ARROW" ->
            <<"Found ">> \o name \o <<", expected '>'">>
      [] tag = "EXPECT_FULL_STOP_OR_ARROW" ->
            <<"Found ">> \o name \o <<", expected '.' (if pin has to be defined) or ';' (if pin does not have to be defined)">>
      [] tag = "PORT_ABSENT" ->
            <<"Pin ">> \o name \o <<" does not exist">>
      [] tag = "INPUT_CONNECTED" ->
            <<"Connection repeatedly assigned to input pin ">> \o name
      [] tag = "DEVICE_ABSENT" ->
            <<"Identifier ">> \o name \o <<" is not defined">>
      [] tag \in {"DEVICE_PRESENT", "MONITOR_PRESENT"} ->
            <<"Identifier ">> \o name \o <<" should not be redefined">>
      [] tag = "MISSING_CLOCK_OR_SWITCH" ->
            <<"At least one list between 'CLOCK' and 'SWITCH' is needed", ". neither is found">>
      [] tag = "DUPLICATE_KEYWORD" ->
            name \o <<" block should not be redefined">>
      [] tag = "WRONG_BLOCK_ORDER" ->
            name \o <<" block order is wrong">>
      [] tag = "MONITOR_NOT_DEFINED" ->
            <<"At least one monitor should be defined">>

\* The tags in the order the elif chain compares error_code with their codes
BranchOrder ==
    <<"EXPECT_IDENTIFIER", "EXPECT_INPUT_DEVICE", "EXPECT_VARIABLE_INPUT_NUMBER",
      "EXPECT_CLOCK_CYCLE", "EXPECT_INITIAL_STATE", "EXPECT_PIN_IN", "EXPECT_PIN_OUT",
      "EXPECT_PIN_IN_OR_OUT", "EXPECT_KEYWORD", "EXPECT_OPEN_CURLY_BRACKET",
      "EXPECT_COMMA", "EXPECT_SEMICOLON", "EXPECT_COLON",
      "EXPECT_FULL_STOP_OR_SEMICOLON", "EXPECT_FULL_STOP", "EXPECT_ARROW",
      "EXPECT_FULL_STOP_OR_ARROW", "PORT_ABSENT", "INPUT_CONNECTED", "DEVICE_ABSENT",
      "DEVICE_PRESENT", "MONITOR_PRESENT", "MISSING_CLOCK_OR_SWITCH",
      "DUPLICATE_KEYWORD", "WRONG_BLOCK_ORDER", "MONITOR_NOT_DEFINED">>

\* Mutant: the branch of the redefinition message tests DEVICE_PRESENT only
MatchingBranches_without_monitor_present(error_code) ==
    {i \in 1..Len(BranchOrder) :
        error_code = codes[BranchOrder[i]] /\ BranchOrder[i] # "MONITOR_PRESENT"}

\* The branches of the elif chain whose comparison with error_code is true
MatchingBranches(error_code) ==
    {i \in 1..Len(BranchOrder) : error_code = codes[BranchOrder[i]]}

\* Mutant: the else of the elif chain returns a message instead of raising
Lookup_else_returns(error_code, name) ==
    LET m == MatchingBranches(error_code)
    IN IF m = {}
       THEN Returned(<<"Invalid error code">>)
       ELSE LET first == CHOOSE i \in m : \A j \in m : i <= j
            IN Returned(Template(BranchOrder[first], name))

\* The elif chain: the first matching branch returns; with none, the else raises
Lookup(error_code, name) ==
    LET m == MatchingBranches(error_code)
    IN IF m = {}
       THEN Raised(InvalidErrorCode)
       ELSE LET first == CHOOSE i \in m : \A j \in m : i <= j
            IN Returned(Template(BranchOrder[first], name))

\* get_error_message(error_code, name): name is quoted first, so the test
\* "not name" that guards the TypeError reads the quoted str
get_error_message(error_code, label) ==
    LET name == <<QUOTE>> \o label \o <<QUOTE>>
    IN IF error_code # codes.MISSING_CLOCK_OR_SWITCH /\ ~StrTruthy(name)
       THEN Raised(MissingName)
       ELSE Lookup(error_code, name)

---------------------------------------------------------------------------
(* ParserErrorHandler.handle_error, file_error, get_line_terminal_output *)

\* Mutant: a type the chain does not know is labelled like EOF instead of raising
symbol_name_else_empty(symbol) ==
    IF IdTruthy(symbol.id)
    THEN IF symbol.type = NUMBER
         THEN Returned(symbol.id.s)
         ELSE Returned(get_name_string(symbol.id.n))
    ELSE IF symbol.type = COMMA THEN Returned(<<",">>)
    ELSE IF symbol.type = SEMICOLON THEN Returned(<<";">>)
    ELSE IF symbol.type = COLON THEN Returned(<<":">>)
    ELSE IF symbol.type = FULL_STOP THEN Returned(<<".">>)
    ELSE IF symbol.type = ARROW THEN Returned(<<">">>)
    ELSE IF symbol.type = OPEN_CURLY_BRACKET THEN Returned(<<"{">>)
    ELSE IF symbol.type = CLOSE_CURLY_BRACKET THEN Returned(<<"}">>)
    ELSE Returned(<< >>)

\* Mutant: the glyphs of FULL_STOP and ARROW are swapped
symbol_name_swapped_glyphs(symbol) ==
    IF IdTruthy(symbol.id)
    THEN IF symbol.type = NUMBER
         THEN Returned(symbol.id.s)
         ELSE Returned(get_name_string(symbol.id.n))
    ELSE IF symbol.type = COMMA THEN Returned(<<",">>)
    ELSE IF symbol.type = SEMICOLON THEN Returned(<<";">>)
    ELSE IF symbol.type = COLON THEN Returned(<<":">>)
    ELSE IF symbol.type = FULL_STOP THEN Returned(<<">">>)
    ELSE IF symbol.type = ARROW THEN Returned(<<".">>)
    ELSE IF symbol.type = OPEN_CURLY_BRACKET THEN Returned(<<"{">>)
    ELSE IF symbol.type = CLOSE_CURLY_BRACKET THEN Returned(<<"}">>)
    ELSE IF symbol.type = EOF THEN Returned(<< >>)
    ELSE Raised(InvalidSymbolType)

\* The label handle_error resolves from the symbol (its local variable name)
symbol_name(symbol) ==
    IF IdTruthy(symbol.id)
    THEN IF symbol.type = NUMBER
         THEN Returned(symbol.id.s)
         ELSE Returned(get_name_string(symbol.id.n))
    ELSE IF symbol.type = COMMA THEN Returned(<<",">>)
    ELSE IF symbol.type = SEMICOLON THEN Returned(<<";">>)
    ELSE IF symbol.type = COLON THEN Returned(<<":">>)
    ELSE IF symbol.type = FULL_STOP THEN Returned(<<".">>)
    ELSE IF symbol.type = ARROW THEN Returned(<<">">>)
    ELSE IF symbol.type = OPEN_CURLY_BRACKET THEN Returned(<<"{">>)
    ELSE IF symbol.type = CLOSE_CURLY_BRACKET THEN Returned(<<"}">>)
    ELSE IF symbol.type = EOF THEN Returned(<< >>)
    ELSE Raised(InvalidSymbolType)

\* Mutant: the line location shows the 0-based line and the arrow is one column
\* further right
get_line_terminal_output_off_by_one(line, character_in_line, message) ==
    IF line + 1 > Len(file_lines)
    THEN Raised(IndexError)
    ELSE Returned([class |-> "LineTerminalOutput",
                   line_location |-> <<"Line ">> \o Dec(line) \o <<":">>,
                   line_with_issue |-> file_lines[line + 1],
                   arrow |-> Spaces(character_in_line + 1) \o <<"^">>,
                   message |-> message])

\* Mutant: a line beyond the cache is shown as an empty source line
get_line_terminal_output_pads_missing_line(line, character_in_line, message) ==
    Returned([class |-> "LineTerminalOutput",
              line_location |-> <<"Line ">> \o Dec(line + 1) \o <<":">>,
              line_with_issue |-> IF line + 1 > Len(file_lines) THEN << >>
                                  ELSE file_lines[line + 1],
              arrow |-> Spaces(character_in_line) \o <<"^">>,
              message |-> message])

\* get_line_terminal_output(line, character_in_line, message): indexing
\* file_lines beyond its end raises IndexError
get_line_terminal_output(line, character_in_line, message) ==
    IF line + 1 > Len(file_lines)
    THEN Raised(IndexError)
    ELSE Returned([class |-> "LineTerminalOutput",
                   line_location |-> <<"Line ">> \o Dec(line + 1) \o <<":">>,
                   line_with_issue |-> file_lines[line + 1],
                   arrow |-> Spaces(character_in_line) \o <<"^">>,
                   message |-> message])

\* Mutant: a diagnostic equal to the newest one of the list is not appended again
handle_error_merges_repeats(error_code, symbol) ==
    LET n == symbol_name(symbol)
        error_message == get_error_message(error_code, n.value)
        error_output == get_line_terminal_output(symbol.line, symbol.character_in_line,
                                                 error_message.value)
    IN IF n.raised # NoException
       THEN [raised |-> n.raised, name |-> << >>, list |-> error_output_list]
       ELSE IF error_message.raised # NoException
       THEN [raised |-> error_message.raised, name |-> n.value, list |-> error_output_list]
       ELSE IF error_output.raised # NoException
       THEN [raised |-> error_output.raised, name |-> n.value, list |-> error_output_list]
       ELSE IF /\ Len(error_output_list) > 0
               /\ error_output_list[Len(error_output_list)] = error_output.value
       THEN [raised |-> NoException, name |-> n.value, list |-> error_output_list]
       ELSE [raised |-> NoException, name |-> n.value,
             list |-> Append(error_output_list, error_output.value)]

\* handle_error(error_code, symbol): the exception it ends in, the label it
\* resolved and error_output_list when it ends
handle_error(error_code, symbol) ==
    LET n == symbol_name(symbol)
        error_message == get_error_message(error_code, n.value)
        error_output == get_line_terminal_output(symbol.line, symbol.character_in_line,
                                                 error_message.value)
    IN IF n.raised # NoException
       THEN [raised |-> n.raised, name |-> << >>, list |-> error_output_list]
       ELSE IF error_message.raised # NoException
       THEN [raised |-> error_message.raised, name |-> n.value, list |-> error_output_list]
       ELSE IF error_output.raised # NoException
       THEN [raised |-> error_output.raised, name |-> n.value, list |-> error_output_list]
       ELSE [raised |-> NoException, name |-> n.value,
             list |-> Append(error_output_list, error_output.value)]

\* Mutant: the FileTerminalOutput is appended before its message is looked up
file_error_appends_first(error_code) ==
    LET message == get_error_message(error_code, << >>)
    IN [raised |-> message.raised,
        list |-> Append(error_output_list,
                        [class |-> "FileTerminalOutput", message |-> message.value])]

\* Mutant: the FileTerminalOutput is appended twice
file_error_appends_twice(error_code) ==
    LET message == get_error_message(error_code, << >>)
        error_output == [class |-> "FileTerminalOutput", message |-> message.value]
    IN IF message.raised # NoException
       THEN [raised |-> message.raised, list |-> error_output_list]
       ELSE [raised |-> NoException,
             list |-> Append(Append(error_output_list, error_output), error_output)]

\* file_error(error_code): the exception it ends in and error_output_list
\* when it ends
file_error(error_code) ==
    LET message == get_error_message(error_code, << >>)
    IN IF message.raised # NoException
       THEN [raised |-> message.raised, list |-> error_output_list]
       ELSE [raised |-> NoException,
             list |-> Append(error_output_list,
                             [class |-> "FileTerminalOutput", message |-> message.value])]

\* LineTerminalOutput.__str__
LineTerminalOutput_str(d) ==
    <<NL>> \o d.line_location \o <<NL>> \o d.line_with_issue \o d.arrow
        \o <<NL>> \o d.message \o <<NL>>

\* Mutant: the rendering leaves out the "File error: " prefix
FileTerminalOutput_str_without_prefix(d) == <<NL>> \o d.message \o <<NL>>

\* FileTerminalOutput.__str__
FileTerminalOutput_str(d) == <<NL, "File error: ">> \o d.message \o <<NL>>

---------------------------------------------------------------------------
(* The inputs *)

\* The name strings of the name table and the source lines of the cache
NameStrings == << <<"AND">>, <<"SW1">> >>
SourceLines == << <<"A -> B;">>, <<"}">> >>

NoSymbol == [type |-> "None", id |-> NoneId, line |-> 0, character_in_line |-> 0]

\* The values a symbol of the type carries: a name index for a keyword or a
\* name, the text of the literal for a number, None for every other type
IdsOf(type) ==
    IF type \in {KEYWORD, NAME} THEN {IntId(i) : i \in 0..(Len(name_table) - 1)}
    ELSE IF type = NUMBER THEN {StrId(<<"0">>), StrId(<<"16">>)}
    ELSE {NoneId}

\* Every symbol: any type with a value it carries, on a line of the cache or on
\* the first line beyond it
AllSymbols ==
    UNION {{[type |-> ty, id |-> id, line |-> l, character_in_line |-> c] :
               id \in IdsOf(ty), l \in 0..Len(file_lines), c \in 0..MaxCol} :
           ty \in RecognizedTypes \cup {UNRECOGNIZED}}

\* Every label message_for is called with
AllLabels ==
    {<< >>, <<",">>, <<";">>, <<":">>, <<".">>, <<">">>, <<"{">>, <<"}">>, <<"0">>, <<"16">>}
        \cup {name_table[i] : i \in 1..Len(name_table)}

\* The inputs of a session of several reports
SessionCodes ==
    {codes.EXPECT_IDENTIFIER, codes.MISSING_CLOCK_OR_SWITCH, codes.DEVICE_PRESENT,
     error_code_count}
SessionSymbols ==
    {[type |-> NAME, id |-> IntId(1), line |-> 0, character_in_line |-> MaxCol],
     [type |-> EOF, id |-> NoneId, line |-> 1, character_in_line |-> 1],
     [type |-> KEYWORD, id |-> IntId(0), line |-> 0, character_in_line |-> 0],
     [type |-> UNRECOGNIZED, id |-> NoneId, line |-> 0, character_in_line |-> 1],
     [type |-> SEMICOLON, id |-> NoneId, line |-> Len(file_lines), character_in_line |-> 0]}
SessionLabels == {<< >>, <<"SW1">>}

---------------------------------------------------------------------------
(* The state machine *)

\* The state after Names, Devices, Network, Monitors, Scanner and
\* ParserErrorHandler are constructed
Init ==
    /\ name_table = NameStrings
    /\ file_lines = SourceLines
    /\ \E pre \in 0..MaxPre :
          /\ codes = DevicesCodes(pre) @@ NetworkCodes(pre + 6) @@ MonitorsCodes(pre + 12)
                        @@ HandlerCodes(pre + 15)
          /\ error_code_count = pre + 15 + 17 + 4
    /\ error_output_list = << >>
    /\ other_error_output_list = << >>
    /\ last = [op |-> "none", error_code |-> 0, symbol |-> NoSymbol, name |-> << >>,
               raised |-> NoException, result |-> << >>]

\* Mutant: the report strips the cached line it shows, in place
HandleError_rewrites_cached_line(error_code, symbol) ==
    LET r == handle_error(error_code, symbol)
    IN /\ error_output_list' = r.list
       /\ last' = [op |-> "handle_error", error_code |-> error_code, symbol |-> symbol,
                   name |-> r.name, raised |-> r.raised, result |-> << >>]
       /\ file_lines' = IF r.raised = NoException
                        THEN [file_lines EXCEPT ![symbol.line + 1] = <<"A->B;">>]
                        ELSE file_lines
       /\ UNCHANGED <<name_table, error_code_count, codes, other_error_output_list>>

HandleError(error_code, symbol) ==
    LET r == handle_error(error_code, symbol)
    IN /\ error_output_list' = r.list
       /\ last' = [op |-> "handle_error", error_code |-> error_code, symbol |-> symbol,
                   name |-> r.name, raised |-> r.raised, result |-> << >>]
       /\ UNCHANGED <<name_table, error_code_count, file_lines, codes, other_error_output_list>>

FileError(error_code) ==
    LET r == file_error(error_code)
    IN /\ error_output_list' = r.list
       /\ last' = [op |-> "file_error", error_code |-> error_code, symbol |-> NoSymbol,
                   name |-> << >>, raised |-> r.raised, result |-> << >>]
       /\ UNCHANGED <<name_table, error_code_count, file_lines, codes, other_error_output_list>>

GetErrorMessage(error_code, label) ==
    LET r == get_error_message(error_code, label)
    IN /\ last' = [op |-> "get_error_message", error_code |-> error_code,
                   symbol |-> NoSymbol, name |-> label, raised |-> r.raised,
                   result |-> r.value]
       /\ UNCHANGED <<name_table, error_code_count, file_lines, codes, error_output_list, other_error_output_list>>

\* A parse session: any number of reports, until the list holds MaxList diagnostics
SessionHandleError ==
    /\ Len(error_output_list) < MaxList
    /\ \E error_code \in SessionCodes, symbol \in SessionSymbols :
          HandleError(error_code, symbol)

SessionFileError ==
    /\ Len(error_output_list) < MaxList
    /\ \E error_code \in SessionCodes : FileError(error_code)

SessionGetErrorMessage ==
    /\ Len(error_output_list) < MaxList
    /\ \E error_code \in SessionCodes, label \in SessionLabels :
          GetErrorMessage(error_code, label)

Next == SessionHandleError \/ SessionFileError \/ SessionGetErrorMessage

Spec == Init /\ [][Next]_vars

\* The first call on a newly constructed handler, with any arguments
CallHandleError ==
    /\ last.op = "none"
    /\ \E error_code \in AllCodes, symbol \in AllSymbols : HandleError(error_code, symbol)

CallFileError ==
    /\ last.op = "none"
    /\ \E error_code \in AllCodes : FileError(error_code)

CallGetErrorMessage ==
    /\ last.op = "none"
    /\ \E error_code \in AllCodes, label \in AllLabels : GetErrorMessage(error_code, label)

\* The construction of the modules over one registry: Devices, Network, Monitors
\* and ParserErrorHandler are constructed in this order, each taking its codes
\* at the cursor, and other modules request batches of codes in between and after
InitRegistry ==
    /\ name_table = NameStrings
    /\ file_lines = SourceLines
    /\ codes = [t \in {} |-> 0]
    /\ error_code_count = 0
    /\ error_output_list = << >>
    /\ other_error_output_list = << >>
    /\ last = [op |-> "none", error_code |-> 0, symbol |-> NoSymbol, name |-> << >>,
               raised |-> NoException, result |-> << >>]

\* The codes the constructors run so far have taken
TakenByConstructors ==
    (IF "DEVICE_PRESENT" \in DOMAIN codes THEN 6 ELSE 0)
        + (IF "PORT_ABSENT" \in DOMAIN codes THEN 6 ELSE 0)
        + (IF "MONITOR_PRESENT" \in DOMAIN codes THEN 3 ELSE 0)
        + (IF "EXPECT_IDENTIFIER" \in DOMAIN codes THEN 17 + 4 ELSE 0)

\* Another module calls names.unique_error_codes(n)
AllocateOther ==
    \E n \in 0..MaxOther :
        /\ error_code_count - TakenByConstructors + n <= MaxOther
        /\ error_code_count' = error_code_count + n
        /\ UNCHANGED <<name_table, file_lines, codes, error_output_list, last, other_error_output_list>>

ConstructDevices ==
    /\ "DEVICE_PRESENT" \notin DOMAIN codes
    /\ codes' = codes @@ DevicesCodes(error_code_count)
    /\ error_code_count' = error_code_count + 6
    /\ UNCHANGED <<name_table, file_lines, error_output_list, last, other_error_output_list>>

ConstructNetwork ==
    /\ "DEVICE_PRESENT" \in DOMAIN codes
    /\ "PORT_ABSENT" \notin DOMAIN codes
    /\ codes' = codes @@ NetworkCodes(error_code_count)
    /\ error_code_count' = error_code_count + 6
    /\ UNCHANGED <<name_table, file_lines, error_output_list, last, other_error_output_list>>

ConstructMonitors ==
    /\ "PORT_ABSENT" \in DOMAIN codes
    /\ "MONITOR_PRESENT" \notin DOMAIN codes
    /\ codes' = codes @@ MonitorsCodes(error_code_count)
    /\ error_code_count' = error_code_count + 3
    /\ UNCHANGED <<name_table, file_lines, error_output_list, last, other_error_output_list>>

\* ParserErrorHandler.__init__
ConstructHandler ==
    /\ "MONITOR_PRESENT" \in DOMAIN codes
    /\ "EXPECT_IDENTIFIER" \notin DOMAIN codes
    /\ codes' = codes @@ HandlerCodes(error_code_count)
    /\ error_code_count' = error_code_count + 17 + 4
    /\ error_output_list' = << >>
    /\ UNCHANGED <<name_table, file_lines, last, other_error_output_list>>

NextRegistry ==
    AllocateOther \/ ConstructDevices \/ ConstructNetwork \/ ConstructMonitors
        \/ ConstructHandler

SpecRegistry == InitRegistry /\ [][NextRegistry]_vars

\* Two parse sessions over the same file, each with its own handler, constructed
\* the same way (so both hold the same codes).  A report on the other handler
\* runs the same code on the other list: it appends there what it appends.
TwoCodes == {codes.DEVICE_PRESENT, error_code_count}
TwoSymbols ==
    {[type |-> NAME, id |-> IntId(1), line |-> 0, character_in_line |-> MaxCol],
     [type |-> UNRECOGNIZED, id |-> NoneId, line |-> 0, character_in_line |-> 1]}

\* What a call that ends with the list r_list appended to error_output_list
Appended(r_list) == SubSeq(r_list, Len(error_output_list) + 1, Len(r_list))

\* Mutant: the list is an attribute of the class, shared by the handlers
OtherFileError_shares_list(error_code) ==
    LET r == file_error(error_code)
    IN /\ other_error_output_list' = other_error_output_list \o Appended(r.list)
       /\ error_output_list' = r.list
       /\ last' = [op |-> "other.file_error", error_code |-> error_code,
                   symbol |-> NoSymbol, name |-> << >>, raised |-> r.raised,
                   result |-> << >>]
       /\ UNCHANGED <<name_table, error_code_count, file_lines, codes>>

OtherHandleError(error_code, symbol) ==
    LET r == handle_error(error_code, symbol)
    IN /\ other_error_output_list' = other_error_output_list \o Appended(r.list)
       /\ last' = [op |-> "other.handle_error", error_code |-> error_code,
                   symbol |-> symbol, name |-> r.name, raised |-> r.raised,
                   result |-> << >>]
       /\ UNCHANGED <<name_table, error_code_count, file_lines, codes, error_output_list>>

OtherFileError(error_code) ==
    LET r == file_error(error_code)
    IN /\ other_error_output_list' = other_error_output_list \o Appended(r.list)
       /\ last' = [op |-> "other.file_error", error_code |-> error_code,
                   symbol |-> NoSymbol, name |-> << >>, raised |-> r.raised,
                   result |-> << >>]
       /\ UNCHANGED <<name_table, error_code_count, file_lines, codes, error_output_list>>

TwoHandleError ==
    /\ Len(error_output_list) + Len(other_error_output_list) < MaxList
    /\ \E error_code \in TwoCodes, symbol \in TwoSymbols : HandleError(error_code, symbol)

TwoFileError ==
    /\ Len(error_output_list) + Len(other_error_output_list) < MaxList
    /\ \E error_code \in TwoCodes : FileError(error_code)

TwoOtherHandleError ==
    /\ Len(error_output_list) + Len(other_error_output_list) < MaxList
    /\ \E error_code \in TwoCodes, symbol \in TwoSymbols :
          OtherHandleError(error_code, symbol)

TwoOtherFileError ==
    /\ Len(error_output_list) + Len(other_error_output_list) < MaxList
    /\ \E error_code \in TwoCodes : OtherFileError(error_code)

NextTwo == TwoHandleError \/ TwoFileError \/ TwoOtherHandleError \/ TwoOtherFileError

SpecTwo == Init /\ [][NextTwo]_vars

NextCall == CallHandleError \/ CallFileError \/ CallGetErrorMessage

SpecCall == Init /\ [][NextCall]_vars

---------------------------------------------------------------------------
(* Properties *)

Reports == {"handle_error", "file_error"}

\* The diagnostic a successful report builds from its arguments
DiagnosticOf(call) ==
    IF call.op = "handle_error"
    THEN get_line_terminal_output(call.symbol.line, call.symbol.character_in_line,
                                  get_error_message(call.error_code, call.name).value).value
    ELSE [class |-> "FileTerminalOutput",
          message |-> get_error_message(call.error_code, << >>).value]

\* C1: a call that ends in a fatal internal fault (invalid symbol type, invalid
\* error code, missing name) leaves error_output_list exactly as it was before
\* the call.
C1_FatalFaultKeepsList ==
    [][last'.raised \in FatalFaults => error_output_list' = error_output_list]_vars

C1_Witness ==
    /\ last.op \in Reports
    /\ last.raised \in FatalFaults
    /\ Len(error_output_list) > 0

\* C2: every successful handle_error or file_error appends exactly the
\* diagnostic it built (a LineTerminalOutput or a FileTerminalOutput) behind the
\* elements already there, which stay as they were and where they were; every
\* other call leaves the list alone.  So the list holds one element per
\* successful call, in call order, also when two calls pass the same code.
C2_AppendOnlyInCallOrder ==
    [][IF last'.op \in Reports /\ last'.raised = NoException
       THEN /\ Len(error_output_list') = Len(error_output_list) + 1
            /\ SubSeq(error_output_list', 1, Len(error_output_list)) = error_output_list
            /\ error_output_list'[Len(error_output_list')] = DiagnosticOf(last')
            /\ error_output_list'[Len(error_output_list')].class =
                  (IF last'.op = "handle_error" THEN "LineTerminalOutput"
                                                ELSE "FileTerminalOutput")
       ELSE error_output_list' = error_output_list]_vars

C2_Witness ==
    /\ Len(error_output_list) = 3
    /\ error_output_list[1].class = "LineTerminalOutput"
    /\ error_output_list[2] = error_output_list[1]
    /\ error_output_list[3].class = "FileTerminalOutput"

\* C3: get_error_message called with an empty label and a code other than
\* MISSING_CLOCK_OR_SWITCH raises the TypeError for the missing name.
C3_EmptyLabelRaises ==
    (/\ last.op = "get_error_message"
     /\ last.name = << >>
     /\ last.error_code # codes.MISSING_CLOCK_OR_SWITCH)
        => last.raised = MissingName

\* C4: for an identifier outside the 21 codes of the handler and the 5
\* collaborator codes, get_error_message raises the invalid-error-code
\* ValueError whatever the label, and handle_error and file_error append nothing.
C4_UnknownCodeRaises ==
    [][(last'.op # "none" /\ last'.error_code \notin DeclaredCodes)
          => /\ error_output_list' = error_output_list
             /\ last'.raised # NoException
             /\ last'.op \in {"get_error_message", "file_error"}
                   => last'.raised = InvalidErrorCode]_vars

C4_Witness ==
    /\ last.op = "handle_error"
    /\ last.error_code \notin DeclaredCodes
    /\ last.symbol.type \in RecognizedTypes
    /\ last.raised = InvalidErrorCode

C6_TotalOverDeclaredCodes ==
    (/\ last.op = "get_error_message"
     /\ last.error_code \in DeclaredCodes
     /\ last.name # << >>)
        => /\ last.raised = NoException
           /\ Len(last.result) > 0
           /\ \A t \in DeclaredTags :
                 codes[t] = last.error_code
                    => last.result = Template(t, <<QUOTE>> \o last.name \o <<QUOTE>>)

C6_Witness ==
    /\ last.op = "get_error_message"
    /\ last.error_code = codes.MONITOR_PRESENT
    /\ last.name = <<"SW1">>
    /\ last.raised = NoException

\* C7: for a KEYWORD, NAME or NUMBER symbol that carries a value (any value,
\* name index 0 included), handle_error does not raise the invalid-symbol-type
\* ValueError and takes the label from the value: the text of a number, the
\* name string of the index otherwise.
C7_ValueGivesLabel ==
    (/\ last.op = "handle_error"
     /\ last.symbol.type \in ValueTypes
     /\ last.symbol.id # NoneId)
        => /\ last.raised # InvalidSymbolType
           /\ last.name = (IF last.symbol.type = NUMBER
                           THEN last.symbol.id.s
                           ELSE name_table[last.symbol.id.n + 1])

\* The glyph of a type that carries no value
Glyph(type) ==
    CASE type = COMMA -> <<",">>
      [] type = SEMICOLON -> <<";">>
      [] type = COLON -> <<":">>
      [] type = FULL_STOP -> <<".">>
      [] type = ARROW -> <<">">>
      [] type = OPEN_CURLY_BRACKET -> <<"{">>
      [] type = CLOSE_CURLY_BRACKET -> <<"}">>
      [] type = EOF -> << >>

\* C8: for a symbol without a value, the label handle_error resolves is the
\* glyph of the type (the empty string for EOF), whatever the error code and
\* the position; resolving it never raises the invalid-symbol-type ValueError,
\* and a diagnostic appended carries the message of the code for that glyph.
C8_GlyphFromTypeAlone ==
    (/\ last.op = "handle_error"
     /\ last.symbol.id = NoneId
     /\ last.symbol.type \in PunctuationTypes \cup {EOF})
        => /\ last.raised # InvalidSymbolType
           /\ last.name = Glyph(last.symbol.type)
           /\ last.raised = NoException
                 => error_output_list[Len(error_output_list)].message =
                       get_error_message(last.error_code, Glyph(last.symbol.type)).value

C8_Witness ==
    /\ last.op = "handle_error"
    /\ last.symbol.type = ARROW
    /\ last.raised = NoException
    /\ last.name = <<">">>

\* C9: a successful handle_error for a symbol on line l (0-based, a line of the
\* cache) and column c appends a LineTerminalOutput whose line_location is
\* "Line l+1:", whose line_with_issue is the cached line l, whose arrow is c
\* spaces and then one '^', and whose message is the message of the code for
\* the label of the symbol.
C9_LineDiagnosticFields ==
    (last.op = "handle_error" /\ last.raised = NoException)
        => LET d == error_output_list[Len(error_output_list)]
               l == last.symbol.line
               c == last.symbol.character_in_line
           IN /\ l + 1 <= Len(file_lines)
              /\ d.class = "LineTerminalOutput"
              /\ d.line_location = <<"Line ", Digit(l + 1), ":">>
              /\ d.line_with_issue = file_lines[l + 1]
              /\ Len(d.arrow) = c + 1
              /\ \A i \in 1..c : d.arrow[i] = SPACE
              /\ d.arrow[c + 1] = "^"
              /\ d.message = get_error_message(last.error_code, last.name).value

C9_Witness ==
    /\ last.op = "handle_error"
    /\ last.raised = NoException
    /\ last.symbol.line = 1
    /\ last.symbol.character_in_line = MaxCol
    /\ error_output_list[1].line_location = <<"Line ", "2", ":">>

\* C10: the rendering of a LineTerminalOutput built over a source line without
\* a newline has exactly six lines: an empty one, the line location, the source
\* line, the arrow (spaces and '^' only), the message, an empty one.
C10_RenderingHasSixLines ==
    \A i \in 1..Len(error_output_list) :
        LET d == error_output_list[i]
            lines == SplitLines(LineTerminalOutput_str(d))
        IN (d.class = "LineTerminalOutput" /\ \A k \in 1..Len(d.line_with_issue) :
                                                d.line_with_issue[k] # NL)
              => /\ Len(lines) = 6
                 /\ lines[1] = << >>
                 /\ lines[2] = d.line_location
                 /\ lines[3] = d.line_with_issue
                 /\ lines[4] = d.arrow
                 /\ lines[5] = d.message
                 /\ lines[6] = << >>

\* C11: the rendering of a FileTerminalOutput is an empty line, the line
\* "File error: " followed by the message, and an empty line; the message is
\* the only field it has and the rendering reads nothing else.
C11_FileRendering ==
    \A i \in 1..Len(error_output_list) :
        LET d == error_output_list[i]
        IN d.class = "FileTerminalOutput"
              => /\ DOMAIN d = {"class", "message"}
                 /\ SplitLines(FileTerminalOutput_str(d)) =
                       << << >>, <<"File error: ">> \o d.message, << >> >>

C11_Witness ==
    /\ last.op = "file_error"
    /\ last.error_code = codes.MONITOR_NOT_DEFINED
    /\ Len(error_output_list) = 1
    /\ error_output_list[1].class = "FileTerminalOutput"

\* C12: file_error called with MISSING_CLOCK_OR_SWITCH or MONITOR_NOT_DEFINED
\* returns and appends exactly one FileTerminalOutput whose message is the
\* fixed text of the code: it holds no quote, hence no quoted label, and for
\* MISSING_CLOCK_OR_SWITCH it holds "At least one list between 'CLOCK' and
\* 'SWITCH' is needed".
C12_ParameterlessFileError ==
    [][(/\ last'.op = "file_error"
        /\ last'.error_code \in {codes.MISSING_CLOCK_OR_SWITCH, codes.MONITOR_NOT_DEFINED})
          => /\ last'.raised = NoException
             /\ Len(error_output_list') = Len(error_output_list) + 1
             /\ SubSeq(error_output_list', 1, Len(error_output_list)) = error_output_list
             /\ LET d == error_output_list'[Len(error_output_list')]
                IN /\ d.class = "FileTerminalOutput"
                   /\ \A k \in 1..Len(d.message) : d.message[k] # QUOTE
                   /\ last'.error_code = codes.MISSING_CLOCK_OR_SWITCH
                         => \E k \in 1..Len(d.message) : d.message[k] =
                               "At least one list between 'CLOCK' and 'SWITCH' is needed"
                   /\ last'.error_code = codes.MONITOR_NOT_DEFINED
                         => d.message = <<"At least one monitor should be defined">>]_vars

C12_Witness ==
    /\ last.op = "file_error"
    /\ last.error_code = codes.MISSING_CLOCK_OR_SWITCH
    /\ last.raised = NoException
    /\ Len(error_output_list) = 1

\* C13: for every declared code and every symbol of a recognized type (EOF
\* included) on a line of the cache, handle_error returns without raising and
\* the list grows by one LineTerminalOutput.
C13_UserFaultNeverFatal ==
    (/\ last.op = "handle_error"
     /\ last.error_code \in DeclaredCodes
     /\ last.symbol.type \in RecognizedTypes
     /\ last.symbol.line < Len(file_lines))
        => /\ last.raised = NoException
           /\ Len(error_output_list) = 1
           /\ error_output_list[1].class = "LineTerminalOutput"

\* The codes of the handler's own tags
OwnCodes(c) == {c[t] : t \in (SyntaxTags \cup SemanticTags) \cap DOMAIN c}

\* C14: the constructor of the handler takes the 17 codes at the cursor for its
\* syntax tags and the 4 codes behind them for its semantic tags; the 21 codes
\* are pairwise distinct and none of them was handed out before (to a
\* collaborator or to anyone else); no code an attribute holds ever changes, and
\* no later request is handed a code an attribute holds.
C14_HandlerCodesFresh ==
    [][/\ ("EXPECT_IDENTIFIER" \notin DOMAIN codes /\ "EXPECT_IDENTIFIER" \in DOMAIN codes')
          => /\ Cardinality(OwnCodes(codes')) = 21
             /\ {codes'[t] : t \in SyntaxTags} =
                   error_code_count..(error_code_count + 16)
             /\ {codes'[t] : t \in SemanticTags} =
                   (error_code_count + 17)..(error_code_count + 20)
             /\ error_code_count' = error_code_count + 21
             /\ OwnCodes(codes') \cap 0..(error_code_count - 1) = {}
             /\ OwnCodes(codes') \cap {codes[t] : t \in DOMAIN codes} = {}
       /\ \A t \in DOMAIN codes : t \in DOMAIN codes' /\ codes'[t] = codes[t]
       /\ error_code_count' >= error_code_count
       /\ \A t \in DOMAIN codes :
             codes[t] \notin error_code_count..(error_code_count' - 1)]_vars

C14_Witness ==
    /\ "EXPECT_IDENTIFIER" \in DOMAIN codes
    /\ codes.DEVICE_PRESENT > 5
    /\ codes.EXPECT_IDENTIFIER > codes.MONITOR_PRESENT + 1
    /\ error_code_count > codes.MONITOR_NOT_DEFINED + 1

\* C15: for each declared code exactly one branch of the elif chain compares
\* equal and exactly one tag holds the code, so get_error_message returns, for
\* every label, the template of that tag and of no tag tested before it.
C15_OneBranchPerCode ==
    (last.op = "get_error_message" /\ last.error_code \in DeclaredCodes)
        => /\ Cardinality(MatchingBranches(last.error_code)) = 1
           /\ Cardinality({t \in DeclaredTags : codes[t] = last.error_code}) = 1
           /\ last.raised = NoException
           /\ \A t \in DeclaredTags :
                 codes[t] = last.error_code
                    => last.result = Template(t, <<QUOTE>> \o last.name \o <<QUOTE>>)

C15_Witness ==
    /\ last.op = "get_error_message"
    /\ last.error_code = codes.MONITOR_NOT_DEFINED
    /\ last.name = << >>
    /\ last.result = <<"At least one monitor should be defined">>

\* C16: for every label the message of EXPECT_FULL_STOP_OR_ARROW differs from
\* the message of EXPECT_FULL_STOP_OR_SEMICOLON (the former names '.' or '>',
\* the latter '.' or ';').
C16_ArrowMessageDiffers ==
    (last.op = "get_error_message" /\ last.error_code = codes.EXPECT_FULL_STOP_OR_ARROW)
        => last.result #
              get_error_message(codes.EXPECT_FULL_STOP_OR_SEMICOLON, last.name).value

C19_LineBeyondCacheAppendsNothing ==
    [][/\ (last'.op = "handle_error" /\ last'.symbol.line >= Len(file_lines))
          => /\ last'.raised # NoException
             /\ last'.raised \notin FatalFaults => last'.raised = IndexError
             /\ error_output_list' = error_output_list
       /\ \A i \in 1..Len(error_output_list') :
             error_output_list'[i].class = "LineTerminalOutput"
                => \E l \in 1..Len(file_lines) :
                      error_output_list'[i].line_with_issue = file_lines[l]]_vars

C19_Witness ==
    /\ last.op = "handle_error"
    /\ last.symbol.line = Len(file_lines)
    /\ last.symbol.type = EOF
    /\ last.error_code \in DeclaredCodes
    /\ last.raised = IndexError

OtherReports == {"other.handle_error", "other.file_error"}

\* C18: a newly constructed handler has an empty error_output_list, and the
\* lists of two handlers are independent: a report on one never changes the
\* list of the other.
C18_FreshIndependentLists ==
    /\ error_output_list = << >>
    /\ other_error_output_list = << >>
    /\ [][/\ last'.op \in Reports
                => other_error_output_list' = other_error_output_list
          /\ last'.op \in OtherReports => error_output_list' = error_output_list]_vars

C18_Witness ==
    /\ last.op \in OtherReports
    /\ last.raised = NoException
    /\ Len(error_output_list) = 1
    /\ Len(other_error_output_list) = 2
    /\ error_output_list[1] # other_error_output_list[1]

====
